---- MODULE Spec2Model ----
(***************************************************************************)
(* A model of the LMS front-end's request layer and of its course-         *)
(* completion / certificate pipeline.                                      *)
(*                                                                         *)
(*   SpecFetch  the caching fetch wrapper handed to the Supabase client    *)
(*              (integrations/supabase/client), on abstract resources.     *)
(*   SpecCert   lessonProgressService and certificateService for one       *)
(*              (user, course) pair, every store request of theirs going   *)
(*              through the same wrapper.                                  *)
(***************************************************************************)
EXTENDS Integers, Sequences, FiniteSets, TLC

(***************************************************************************)
(* Program constants of the fetch wrapper, in seconds.  The clock of the   *)
(* model advances in steps of ERROR_COOLDOWN and CACHE_TTL; a request is   *)
(* answered or aborted (after 8 s, line 71) within one such step, so no    *)
(* clock step separates a request from its answer.                         *)
(***************************************************************************)
CACHE_TTL == 900
FIVE_MINUTES == 300
ERROR_COOLDOWN == 10

(***************************************************************************)
(* Bounds of the wrapper model.                                            *)
(***************************************************************************)
MaxTicks == 2
MaxWrites == 1
MaxInflight == 2

Methods == {"GET", "POST"}

\* What the network can do with a request that was sent: a 2xx answer, a 429,
\* any other non-2xx answer, the abort of line 71, or fetch() itself rejecting.
Outcomes == {"ok", "s429", "httpError", "abort", "netError"}

\* The URLs of the wrapper model.  The cache is keyed by the whole URL, the
\* error cooldown by the URL without its query.
FetchUrls == { [path |-> "certificates", query |-> "list"] }

FetchPaths == { u.path : u \in FetchUrls }

(***************************************************************************)
(* responseCache: Map<cacheKey, {data, timestamp}>.  The key is made of    *)
(* the URL, the method and the body; only successful GETs are ever stored  *)
(* (line 97), so the map is modelled over GET URLs and a non-GET request   *)
(* never finds an entry.                                                   *)
(***************************************************************************)
Entry(d, t) == [present |-> TRUE, data |-> d, timestamp |-> t]
NoEntry(d0) == [present |-> FALSE, data |-> d0, timestamp |-> 0]

CacheGet(cache, key, method, d0) ==
  IF method = "GET" THEN cache[key] ELSE NoEntry(d0)

\* Lines 33-64: how the wrapper answers before any network traffic.
\*   "cooldownCache"  path in errorPaths and an entry exists (no age check)
\*   "cooldownEmpty"  path in errorPaths, no entry, GET: fabricated {data: []}
\*   "cache"          GET with an entry younger than CACHE_TTL
\*   "send"           handed to the throttler and sent to the network
PreAnswerNoEmpty(entry, inCooldown, method, t) ==
  IF inCooldown /\ entry.present THEN "cooldownCache"
  ELSE IF method = "GET" /\ entry.present /\ t - entry.timestamp < CACHE_TTL
       THEN "cache"
  ELSE "send"

PreAnswerNoTtl(entry, inCooldown, method, t) ==
  IF inCooldown /\ entry.present THEN "cooldownCache"
  ELSE IF inCooldown /\ method = "GET" THEN "cooldownEmpty"
  ELSE IF method = "GET" /\ entry.present THEN "cache"
  ELSE "send"

PreAnswer(entry, inCooldown, method, t) ==
  IF inCooldown /\ entry.present THEN "cooldownCache"
  ELSE IF inCooldown /\ method = "GET" THEN "cooldownEmpty"
  ELSE IF method = "GET" /\ entry.present /\ t - entry.timestamp < CACHE_TTL
       THEN "cache"
  ELSE "send"

\* Lines 81-170: how the wrapper answers once the network has.
\*   "network"       the response itself (2xx)
\*   "timeoutCache"  abort, entry exists: cached data with status 200
\*   "errorCache"    any other failure of a GET with an entry: cached data, 200
\*   "throw"         the callback rejects
ReplyAnswer(entry, method, outcome) ==
  IF outcome = "ok" THEN "network"
  ELSE IF outcome = "abort"
       THEN (IF entry.present THEN "timeoutCache" ELSE "throw")
  ELSE IF method = "GET" /\ entry.present THEN "errorCache"
  ELSE "throw"

\* Lines 96-108: a 2xx GET answer is stored with the time of its arrival;
\* nothing else writes the cache and nothing ever deletes from it.
CacheAfterReply(cache, key, method, outcome, d, t) ==
  IF outcome = "ok" /\ method = "GET"
    THEN [cache EXCEPT ![key] = Entry(d, t)]
    ELSE cache

\* Lines 87, 114, 134: every failure puts the path into errorPaths.
MarksError(outcome) == outcome # "ok"

\* The error the callback rejects with (lines 92-93, 118-126, 146, 149).
ThrownError(outcome, duplicate) ==
  CASE outcome = "s429" -> "rateLimit"
    [] outcome = "httpError" -> IF duplicate THEN "certificateError" ELSE "httpError"
    [] outcome = "abort" -> "timeout"
    [] OTHER -> "networkError"

FromCache(via) == via \in {"cache", "cooldownCache", "timeoutCache", "errorCache"}
Resolved(via) == via \in {"cache", "cooldownCache", "cooldownEmpty",
                          "timeoutCache", "errorCache", "network"}

(***************************************************************************)
(* State.                                                                  *)
(***************************************************************************)
VARIABLES
  responseCache,  \* wrapper model: GET URL -> entry
  errorPaths,     \* wrapper model: paths in error cooldown
  timers,         \* wrapper model: pending setTimeout(errorPaths.delete)
  now,            \* wrapper model: Date.now(), seconds
  ticks,          \* wrapper model: number of clock advances so far
  writes,         \* wrapper model: per path, successful non-GET requests
  inflight,       \* wrapper model: requests sent and not yet answered
  resp,           \* wrapper model: the last answer the wrapper gave
  lessons,        \* store: ids of the lessons of the course (all its modules)
  lp,             \* store: lesson_progress of the user, per lesson
  enrollment,     \* store: the enrollments row of (user, course)
  certs,          \* store: ids of the certificates rows of (user, course)
  recent,         \* store: recent_certificates holds a row of (user, course)
  sess,           \* per session: the wrapper's responseCache, errorPaths, timers
  thr,            \* per session: requestThrottler's item cache
  pc,             \* per session: where its running operation stands
  loc,            \* per session: locals of the running operation
  call,           \* per session: record of its last certificate issuance call
  result,         \* per session: what its last operation returned
  steps,          \* operations started and clock advances so far
  rows,           \* store: number of enrollments rows of (user, course)
  unique,         \* store: enrollments is unique on (user_id, course_id)
  esess,          \* per session: the wrapper's state, enrollment page
  en,             \* per session: record of its last enrollCourse call
  wins,           \* enrollCourse calls that returned success = true
  signedIn,       \* users page: whose auth session the browser tab holds
  usess,          \* users page: the wrapper's state of the tab
  profiles,       \* store: ids of the users that have a profiles row
  ulast,          \* users page: record of the last userService mutation
  lastAdminRoleUpdate, \* AuthProvider: the state as last rendered
  accountRole,    \* auth: the role the adapted user of the session carries
  updating,       \* auth: supabase.auth.updateUser calls in flight
  issued,         \* auth: Date.now() of each updateUser call ensureAdminRole made
  scheduled,      \* AuthProvider: roles of the users of pending setTimeout(0)
  mounted,        \* AuthProvider: the getSession result has been handled
  mstore,         \* store: per module id, its row of the course and its lessons
  msess,          \* modules page: the wrapper's state
  mlast,          \* modules page: record of the last getModulesByCourseId call
  amodules,       \* AdminModules: the modules state, a list of module ids
  astore,         \* store: ids of the modules rows, and the next id
  submits,        \* AdminModules: handleSubmit calls awaiting createModule
  alast           \* AdminModules: record of the last handleSubmit that settled

fetchVars == <<responseCache, errorPaths, timers, writes, inflight, resp>>
clockVars == <<now, ticks>>
storeVars == <<lessons, lp, enrollment, certs, recent>>
certVars == <<storeVars, sess, thr, pc, loc, call, result, steps>>

enrollVars == <<rows, unique, esess, en, wins>>
userVars == <<signedIn, usess, profiles, ulast>>
authVars ==
  <<lastAdminRoleUpdate, accountRole, updating, issued, scheduled, mounted>>
moduleVars == <<mstore, msess, mlast>>
adminVars == <<amodules, astore, submits, alast>>
pageVars == <<enrollVars, userVars, authVars, moduleVars, adminVars>>

vars == <<fetchVars, clockVars, certVars, pageVars>>

(***************************************************************************)
(* The certificate model: one user, one course, two browser sessions.      *)
(* Each session has its own copy of the wrapper's module-level state.      *)
(***************************************************************************)
Sessions == {"a", "b"}
LessonIds == {1, 2}

\* Bounds of the certificate model.
MaxSteps == 4

\* The GET URLs of the pipeline.  A URL is a table, a select list and its
\* filters; ids is the lesson list the filter names, where there is one.
\*   lessons      calculateCourseProgress: the modules of the course and
\*                their lessons (lines 299-321), one key for the two queries
\*   lessonsMark  markLessonAsCompleted: the same, select id (lines 179-195)
\*   completed    lesson_progress, completed = true, lesson_id in ids
\*                (lines 206-211 and 336-341: the same URL when both list
\*                the lessons in the same order)
\*   lp           lesson_progress of one lesson (lines 105-110)
\*   enroll       enrollments, select progress, completed_at (part_003
\*                354-359 and part_002 466-471)
\*   enrollDone   enrollments, select completed_at (part_003 236-241)
\*   certList     getCertificates(userId, courseId) (part_002 57-67)
\*   certSingle   certificates, maybeSingle (part_002 210-215, 306-311)
K(t, ids) == [t |-> t, ids |-> ids]

CertKeys ==
  { K(t, {}) : t \in {"lessons", "lessonsMark", "enroll", "enrollDone",
                      "certList", "certSingle"} }
  \cup { K("completed", ids) : ids \in (SUBSET LessonIds) \ {{}} }
  \cup { K("lp", {l}) : l \in LessonIds }

PathOf(key) ==
  CASE key.t \in {"lessons", "lessonsMark"} -> "lessons"
    [] key.t \in {"completed", "lp"} -> "lesson_progress"
    [] key.t \in {"enroll", "enrollDone", "enrollAll"} -> "enrollments"
    [] key.t = "authUser" -> "auth/user"
    [] key.t = "profileByEmail" -> "profiles"
    [] key.t = "modules" -> "modules"
    [] key.t = "lessonsOf" -> "lessons"
    [] OTHER -> "certificates"

DefaultData(key) ==
  CASE key.t = "enroll" -> [progress |-> 0, completed |-> FALSE]
    [] key.t = "enrollDone" -> FALSE
    [] key.t = "lp" -> "none"
    [] OTHER -> {}

NewSession ==
  [cache |-> [k \in CertKeys |-> NoEntry(DefaultData(k))], errs |-> {}, timers |-> {}]

\* requestThrottler's item cache, as generateCertificate uses it: the cached
\* certificate of the pair and the cached eligibility; getCachedItem gives
\* undefined for an item that is not cached.
NewThrottle == [hasCert |-> FALSE, cert |-> 0, elig |-> "undefined"]

NoCall ==
  [kind |-> "none", fin |-> TRUE, ok |-> FALSE, err |-> "none", cert |-> 0,
   certAtStart |-> FALSE, attempted |-> FALSE, inserted |-> FALSE, dup |-> FALSE,
   inelig |-> FALSE, allDone |-> FALSE, recentWritten |-> FALSE]

NoResult == [op |-> "none", ok |-> FALSE, progress |-> 0, flag |-> FALSE]
NoSeen == [failed |-> FALSE, empty |-> FALSE, computed |-> 0]
NoLocals == [caller |-> "none", progress |-> 0, c2 |-> FALSE, seen |-> NoSeen]

\* A store request of a session through the wrapper.  ans is what the store
\* answers if the request reaches it: [ok, data].  A request of the pipeline
\* is answered within the step that makes it.
Ans(ok, data) == [ok |-> ok, data |-> data]

AfterOutcome(se, key, path, method, outcome, data) ==
  [cache |-> IF method = "GET"
               THEN CacheAfterReply(se.cache, key, method, outcome, data, now)
               ELSE se.cache,
   errs |-> IF MarksError(outcome) THEN se.errs \cup {path} ELSE se.errs,
   timers |-> IF MarksError(outcome)
                THEN se.timers \cup {[path |-> path, due |-> now + ERROR_COOLDOWN]}
                ELSE se.timers]

\* A GET: the session afterwards, how it was answered, whether the client
\* saw no error (ok), whether the body is the fabricated {data: []} (fab),
\* and the data.
WGet(se, key, ans) ==
  LET path == PathOf(key)
      entry == se.cache[key]
      pre == PreAnswer(entry, path \in se.errs, "GET", now)
      outcome == IF ans.ok THEN "ok" ELSE "httpError"
      via == IF pre = "send" THEN ReplyAnswer(entry, "GET", outcome) ELSE pre
  IN [se |-> IF pre = "send"
               THEN AfterOutcome(se, key, path, "GET", outcome, ans.data)
               ELSE se,
      via |-> via,
      ok |-> via # "throw",
      fab |-> via = "cooldownEmpty",
      data |-> IF via = "network" THEN ans.data ELSE entry.data]

\* A non-GET request (insert, update, upsert): never cached, always sent.
WSend(se, path, accepted) ==
  LET entry == NoEntry({})
      pre == PreAnswer(entry, path \in se.errs, "POST", now)
      outcome == IF accepted THEN "ok" ELSE "httpError"
      via == IF pre = "send" THEN ReplyAnswer(entry, "POST", outcome) ELSE pre
  IN [se |-> IF pre = "send"
               THEN AfterOutcome(se, K("certList", {}), path, "POST", outcome, {})
               ELSE se,
      via |-> via,
      ok |-> via = "network"]

\* Math.round((completedCount / totalLessons) * 100)
Percent(c, t) == (200 * c + t) \div (2 * t)

DoneIn(ids, lpv) == { l \in ids : lpv[l] = "done" }
AllDone(ls, lpv) == ls # {} /\ \A l \in ls : lpv[l] = "done"
Eligible(e) == e.exists /\ e.progress = 100 /\ e.completed

NoResp ==
  [url |-> [path |-> "certificates", query |-> "list"], method |-> "GET",
   via |-> "none", outcome |-> "none", data |-> 0, age |-> 0,
   writesAtCall |-> 0, cooldownAtCall |-> FALSE, hadEntry |-> FALSE]

FetchIdle ==
  /\ responseCache = [u \in FetchUrls |-> NoEntry(0)]
  /\ errorPaths = {}
  /\ timers = {}
  /\ writes = [p \in FetchPaths |-> 0]
  /\ inflight = {}
  /\ resp = NoResp

ClockInit == now = 0 /\ ticks = 0

\* A course of one lesson, nothing completed, no certificate; the user is
\* enrolled or not.
CertIdle(enrolled) ==
  /\ lessons = {1}
  /\ lp = [l \in LessonIds |-> "none"]
  /\ enrollment = [exists |-> enrolled, progress |-> 0, completed |-> FALSE]
  /\ certs = {}
  /\ recent = FALSE
  /\ sess = [s \in Sessions |-> NewSession]
  /\ thr = [s \in Sessions |-> NewThrottle]
  /\ pc = [s \in Sessions |-> "idle"]
  /\ loc = [s \in Sessions |-> NoLocals]
  /\ call = [s \in Sessions |-> NoCall]
  /\ result = [s \in Sessions |-> NoResult]
  /\ steps = 0

\* enrollCourse's GET: enrollments, select *, of the pair (enrollmentService
\* lines 127-132).
EnrollKey == K("enrollAll", {})

NoEnroll ==
  [pc |-> "idle", fin |-> FALSE, existed |-> FALSE, success |-> FALSE,
   message |-> "none", inserted |-> FALSE]

EnrollIdle ==
  /\ rows = 0
  /\ esess = [s \in Sessions |->
               [cache |-> [k \in {EnrollKey} |-> NoEntry(0)],
                errs |-> {}, timers |-> {}]]
  /\ en = [s \in Sessions |-> NoEnroll]
  /\ wins = 0

\* The accounts of the users page: one whose app_metadata.role is 'admin'
\* and one whose role is 'student'; a user's id names the user.
Users == {"admin", "student"}
Role(u) == u
UserKey == K("authUser", {})
ProfileKey(u) == K("profileByEmail", {u})
UserKeys == {UserKey} \cup { ProfileKey(u) : u \in Users }
NoUserCall ==
  [op |-> "none", actor |-> "none", target |-> "none", performed |-> FALSE,
   threw |-> FALSE]

UserIdle ==
  /\ signedIn = "none"
  /\ usess = [cache |-> [k \in UserKeys |-> NoEntry("none")], errs |-> {},
              timers |-> {}]
  /\ profiles = Users
  /\ ulast = NoUserCall

\* AuthProvider at its first render, for a user with a hard-coded admin
\* email whose role is not 'admin': useState(0), nothing in flight.
AuthIdle ==
  /\ lastAdminRoleUpdate = 0
  /\ accountRole = "student"
  /\ updating = 0
  /\ issued = <<>>
  /\ scheduled = <<>>
  /\ mounted = FALSE

\* The modules of one course: at most two, each with an order_number and
\* its lessons.
ModuleIds == {1, 2}
Orders == {1, 2}
ModuleRows ==
  [ModuleIds -> [present : BOOLEAN, order : Orders, lessons : {{}, {1}}]]
ModulesKey == K("modules", {})
LessonsKey(m) == K("lessonsOf", {m})
ModuleKeys == {ModulesKey} \cup { LessonsKey(m) : m \in ModuleIds }
NoModulesCall ==
  [op |-> "none", courseId |-> "", threw |-> FALSE, ret |-> <<>>,
   modulesFailed |-> FALSE, modulesNone |-> FALSE, lessonsFailed |-> {},
   lessonsRead |-> {}]

ModulesIdle(rowsOfCourse) ==
  /\ mstore = rowsOfCourse
  /\ msess = [cache |-> [k \in ModuleKeys |-> NoEntry(<<>>)], errs |-> {},
              timers |-> {}]
  /\ mlast = NoModulesCall

NoModules == [m \in ModuleIds |-> [present |-> FALSE, order |-> 1, lessons |-> {}]]

\* AdminModules showing the one module of the course, no submit running.
NoSubmit ==
  [outcome |-> "none", tempId |-> 0, before |-> <<>>, after |-> <<>>,
   stored |-> 0, disturbed |-> FALSE]
Stored(id) == [temp |-> FALSE, id |-> id]
AdminIdle ==
  /\ amodules = <<Stored(1)>>
  /\ astore = [ids |-> {1}, next |-> 2]
  /\ submits = {}
  /\ alast = NoSubmit

PageIdle ==
  /\ EnrollIdle /\ unique = TRUE /\ UserIdle /\ AuthIdle
  /\ ModulesIdle(NoModules) /\ AdminIdle

FetchInit == FetchIdle /\ ClockInit /\ CertIdle(TRUE) /\ PageIdle

(***************************************************************************)
(* supabase global fetch, first half (lines 27-66): the call.              *)
(***************************************************************************)
FetchCall(u, m) ==
  LET entry == CacheGet(responseCache, u, m, 0)
      cool == u.path \in errorPaths
      via == PreAnswer(entry, cool, m, now)
  IN /\ IF via = "send"
          THEN /\ Cardinality(inflight) < MaxInflight
               /\ inflight' = inflight \cup
                    { [url |-> u, method |-> m,
                       writesAtCall |-> writes[u.path], cooldownAtCall |-> cool,
                       hadEntry |-> entry.present] }
               /\ UNCHANGED resp
          ELSE /\ resp' = [url |-> u, method |-> m, via |-> via, outcome |-> "none",
                           data |-> IF via = "cooldownEmpty" THEN 0 ELSE entry.data,
                           age |-> IF via = "cooldownEmpty" THEN 0
                                   ELSE now - entry.timestamp,
                           writesAtCall |-> writes[u.path], cooldownAtCall |-> cool,
                           hadEntry |-> entry.present]
               /\ UNCHANGED inflight
     /\ UNCHANGED <<pageVars, responseCache, errorPaths, timers, writes,
                    clockVars, certVars>>

(***************************************************************************)
(* supabase global fetch, second half (lines 67-171): the network answers. *)
(* A successful non-GET request has changed the resource.                  *)
(***************************************************************************)
FetchReply(r, outcome) ==
  LET u == r.url
      m == r.method
      entry == CacheGet(responseCache, u, m, 0)
      via == ReplyAnswer(entry, m, outcome)
      wrote == outcome = "ok" /\ m # "GET"
  IN /\ r \in inflight
     /\ wrote => writes[u.path] < MaxWrites
     /\ inflight' = inflight \ {r}
     /\ writes' = IF wrote THEN [writes EXCEPT ![u.path] = @ + 1] ELSE writes
     /\ responseCache' = CacheAfterReply(responseCache, u, m, outcome, writes[u.path], now)
     /\ errorPaths' = IF MarksError(outcome) THEN errorPaths \cup {u.path} ELSE errorPaths
     /\ timers' = IF MarksError(outcome)
                    THEN timers \cup {[path |-> u.path, due |-> now + ERROR_COOLDOWN]}
                    ELSE timers
     /\ resp' = [url |-> u, method |-> m, via |-> via, outcome |-> outcome,
                 data |-> IF via = "network" THEN writes'[u.path]
                          ELSE IF FromCache(via) THEN entry.data ELSE 0,
                 age |-> IF FromCache(via) THEN now - entry.timestamp ELSE 0,
                 writesAtCall |-> r.writesAtCall, cooldownAtCall |-> r.cooldownAtCall,
                 hadEntry |-> r.hadEntry]
     /\ UNCHANGED <<pageVars, clockVars, certVars>>

\* Lines 88, 115, 135: setTimeout(() => errorPaths.delete(urlPath), ERROR_COOLDOWN).
TimerFire(t) ==
  /\ t \in timers
  /\ now >= t.due
  /\ errorPaths' = errorPaths \ {t.path}
  /\ timers' = timers \ {t}
  /\ UNCHANGED <<pageVars, responseCache, writes, inflight, resp, clockVars,
                 certVars>>

\* The clock.  It never runs past a pending timer or a request in flight.
TickSteps == {ERROR_COOLDOWN, CACHE_TTL}

Tick(d) ==
  /\ ticks < MaxTicks
  /\ \A t \in timers : now + d <= t.due
  /\ inflight = {}
  /\ now' = now + d
  /\ ticks' = ticks + 1
  /\ UNCHANGED <<pageVars, fetchVars, certVars>>

FetchNext ==
  \/ \E u \in FetchUrls, m \in Methods : FetchCall(u, m)
  \/ \E r \in inflight, o \in Outcomes : FetchReply(r, o)
  \/ \E t \in timers : TimerFire(t)
  \/ \E d \in TickSteps : Tick(d)

SpecFetch == FetchInit /\ [][FetchNext]_vars

(***************************************************************************)
(* lessonProgressService and certificateService.                           *)
(***************************************************************************)
CanStart(s) == pc[s] = "idle" /\ steps < MaxSteps

\* Bookkeeping for the properties.  A change of the lessons, of their
\* completion or of the enrollment by one session ends the "course just
\* completed by this session" standing of the others; an issuance call that
\* is still running notes whether the pair stayed without a certificate and
\* not eligible.
Disturb(fn, s) ==
  [t \in Sessions |-> IF t = s THEN fn[t] ELSE [fn[t] EXCEPT !.flag = FALSE]]

DisturbLoc(fn, s) ==
  [t \in Sessions |-> IF t = s THEN fn[t] ELSE [fn[t] EXCEPT !.c2 = FALSE]]

Watch(fn, s, enr, cs) ==
  [t \in Sessions |->
     IF t = s \/ fn[t].fin THEN fn[t]
     ELSE [fn[t] EXCEPT !.inelig = @ /\ ~Eligible(enr) /\ cs = {}]]

\* markLessonAsCompleted, lines 173-257: the recalculation after the write.
\* It yields the session, the enrollment and whether one of its queries
\* failed (an error answer, or the fabricated body breaking modules.map).
MarkRecalc(se0, ls, lpv, enr) ==
  LET m == WGet(se0, K("lessonsMark", {}), Ans(TRUE, ls)) IN
  IF ~m.ok \/ m.fab \/ m.data = {}
    THEN [se |-> m.se, enr |-> enr, failed |-> ~m.ok \/ m.fab]
  ELSE
    LET ids == m.data
        c == WGet(m.se, K("completed", ids), Ans(TRUE, DoneIn(ids, lpv)))
        cnt == IF c.ok /\ ~c.fab THEN Cardinality(c.data) ELSE 0
        progress == Percent(cnt, Cardinality(ids))
        w == WSend(c.se, "enrollments", TRUE)
        enr1 == IF enr.exists THEN [enr EXCEPT !.progress = progress] ELSE enr
    IN IF progress # 100 THEN [se |-> w.se, enr |-> enr1, failed |-> ~c.ok]
       ELSE
         LET e == WGet(w.se, K("enrollDone", {}), Ans(enr1.exists, enr1.completed))
             unset == e.ok /\ (e.fab \/ ~e.data)
             w2 == WSend(e.se, "enrollments", TRUE)
         IN IF unset
              THEN [se |-> w2.se,
                    enr |-> IF enr1.exists THEN [enr1 EXCEPT !.completed = TRUE]
                            ELSE enr1,
                    failed |-> ~c.ok]
              ELSE [se |-> e.se, enr |-> enr1, failed |-> ~c.ok \/ ~e.ok]

\* markLessonAsCompleted, lines 174 and 253-257: the recalculation runs in a
\* try of its own whose catch only logs, so the operation goes on whether
\* the recalculation failed or not.
RecalcRethrows(failed) == ~failed

RecalcCatch(failed) == TRUE

\* markLessonAsCompleted, lines 63-171: the lesson and its module exist
\* (lines 68-99); find the progress record (lines 105-110), update it or
\* insert one.  An update through a fabricated record
\* names no row, and an insert for a lesson that has a record is refused by
\* the store; both fail the operation.
MarkWrite(se0, l, lpv) ==
  LET r == WGet(se0, K("lp", {l}), Ans(TRUE, lpv[l])) IN
  IF ~r.ok THEN [se |-> r.se, ok |-> FALSE, lp |-> lpv]
  ELSE
    LET existing == r.fab \/ r.data # "none"
        accepted == IF existing THEN ~r.fab /\ lpv[l] # "none" ELSE lpv[l] = "none"
        w == WSend(r.se, "lesson_progress", accepted)
    IN [se |-> w.se, ok |-> w.ok,
        lp |-> IF w.ok THEN [lpv EXCEPT ![l] = "done"] ELSE lpv]

MarkLessonAsCompleted(s, l) ==
  /\ CanStart(s)
  /\ l \in lessons
  /\ \E w \in {MarkWrite(sess[s], l, lp)} :
     \E rc \in {MarkRecalc(w.se, lessons, w.lp, enrollment)} :
     \E se2 \in {IF w.ok THEN rc.se ELSE w.se} :
     \E enr2 \in {IF w.ok THEN rc.enr ELSE enrollment} :
     /\ steps' = steps + 1
     /\ sess' = [sess EXCEPT ![s] = se2]
     /\ lp' = w.lp
     /\ enrollment' = enr2
     /\ result' = [Disturb(result, s) EXCEPT ![s] =
                     [op |-> "mark", ok |-> w.ok /\ RecalcCatch(rc.failed),
                      progress |-> 0,
                      flag |-> w.ok /\ lp[l] # "done" /\ AllDone(lessons, w.lp)
                               /\ enrollment.exists]]
     /\ loc' = DisturbLoc(loc, s)
     /\ call' = Watch(call, s, enr2, certs)
     /\ UNCHANGED <<pageVars, lessons, certs, recent, thr, pc, fetchVars,
                    clockVars>>

\* markLessonAsIncomplete, lines 269-285.
MarkLessonAsIncomplete(s, l) ==
  LET w == WSend(sess[s], "lesson_progress", TRUE) IN
  /\ CanStart(s)
  /\ l \in lessons
  /\ steps' = steps + 1
  /\ sess' = [sess EXCEPT ![s] = w.se]
  /\ lp' = [lp EXCEPT ![l] = IF @ = "none" THEN "none" ELSE "undone"]
  /\ result' = [Disturb(result, s) EXCEPT ![s] =
                  [op |-> "incomplete", ok |-> TRUE, progress |-> 0, flag |-> FALSE]]
  /\ loc' = DisturbLoc(loc, s)
  /\ UNCHANGED <<pageVars, lessons, enrollment, certs, recent, thr, pc, call,
                 fetchVars, clockVars>>

\* lessonService.createLesson, by an administrator: the course gets a lesson.
CreateLesson(l) ==
  /\ steps < MaxSteps
  /\ l \in LessonIds \ lessons
  /\ steps' = steps + 1
  /\ lessons' = lessons \cup {l}
  /\ result' = [t \in Sessions |-> [result[t] EXCEPT !.flag = FALSE]]
  /\ loc' = [t \in Sessions |-> [loc[t] EXCEPT !.c2 = FALSE]]
  /\ UNCHANGED <<pageVars, lp, enrollment, certs, recent, sess, thr, pc, call,
                 fetchVars, clockVars>>

\* calculateCourseProgress, lines 291-381: the percentage and the update of
\* the enrollment.  done: the course counts as completed (isNowCompleted);
\* progress: the value the operation is to return; seen: what the operation
\* met on its way (a query that failed, a course without modules or
\* lessons, the percentage it computed).
Seen(failed, empty, computed) ==
  [failed |-> failed, empty |-> empty, computed |-> computed]

CalcCore(se0, ls, lpv, enr) ==
  LET r1 == WGet(se0, K("lessons", {}), Ans(TRUE, ls)) IN
  IF ~r1.ok \/ r1.fab \/ r1.data = {}
    THEN [se |-> r1.se, progress |-> 0, enr |-> enr, done |-> FALSE,
          seen |-> Seen(~r1.ok \/ r1.fab, r1.ok /\ ~r1.fab, 0)]
  ELSE
    LET ids == r1.data
        r2 == WGet(r1.se, K("completed", ids), Ans(TRUE, DoneIn(ids, lpv)))
        cnt == IF r2.fab THEN 0 ELSE Cardinality(r2.data)
        progress == Percent(cnt, Cardinality(ids))
        r3 == WGet(r2.se, K("enroll", {}),
                   Ans(enr.exists, [progress |-> enr.progress,
                                    completed |-> enr.completed]))
        wasPreviouslyCompleted == r3.fab \/ r3.data.completed
        isNowCompleted == progress = 100
        w == WSend(r3.se, "enrollments", TRUE)
    IN IF ~r2.ok THEN [se |-> r2.se, progress |-> 0, enr |-> enr, done |-> FALSE,
                        seen |-> Seen(TRUE, FALSE, 0)]
       ELSE IF ~r3.ok THEN [se |-> r3.se, progress |-> 0, enr |-> enr,
                            done |-> FALSE, seen |-> Seen(TRUE, FALSE, progress)]
       ELSE [se |-> w.se, progress |-> progress,
             seen |-> Seen(FALSE, FALSE, progress),
             enr |-> IF enr.exists
                       THEN [enr EXCEPT !.progress = progress,
                                        !.completed = @ \/ (isNowCompleted
                                                  /\ ~wasPreviouslyCompleted)]
                       ELSE enr,
             done |-> isNowCompleted]

\* getCertificates(userId, courseId), part_002 lines 55-78: any failure,
\* the fabricated body included (data.map is not a function), gives [].
GetCertificates(se, cs) ==
  LET r == WGet(se, K("certList", {}), Ans(TRUE, cs))
  IN [se |-> r.se, certs |-> IF r.ok /\ ~r.fab THEN r.data ELSE {}]

\* existingCerts[0]: the list is ordered by issue_date, newest first.
First(cs) == CHOOSE c \in cs : \A d \in cs : d <= c

\* isEligibleForCertificate, part_002 lines 452-490.
IsEligibleForCertificate(se, cs, enr) ==
  LET g == GetCertificates(se, cs)
      e == WGet(g.se, K("enroll", {}),
                Ans(enr.exists, [progress |-> enr.progress,
                                 completed |-> enr.completed]))
  IN IF g.certs # {} THEN [se |-> g.se, eligible |-> TRUE]
     ELSE [se |-> e.se,
           eligible |-> e.ok /\ ~e.fab /\ e.data.progress = 100 /\ e.data.completed]

\* The unique constraint of certificates on (user_id, course_id): the store
\* refuses a second row of the pair with error 23505.
StoreAcceptsAnyCertificate(cs) == TRUE

StoreAcceptsCertificate(cs) == cs = {}

\* The code of the error the client reports for a request the wrapper
\* rejected.  The wrapper throws new Error(text) (lines 118-126), which has
\* no code, so the code the client reports is empty.
PostgrestErrorCode == ""

StartIssue(kind) ==
  [kind |-> kind, fin |-> FALSE, ok |-> FALSE, err |-> "none", cert |-> 0,
   certAtStart |-> certs # {}, attempted |-> FALSE, inserted |-> FALSE,
   dup |-> FALSE, inelig |-> ~Eligible(enrollment) /\ certs = {},
   allDone |-> FALSE, recentWritten |-> FALSE]

Running == [op |-> "running", ok |-> FALSE, progress |-> 0, flag |-> FALSE]
CalcResult(s) ==
  [op |-> "calc", ok |-> TRUE, progress |-> loc[s].progress, flag |-> loc[s].c2]

\* What the caller of an issuance call that ends sees: calculateCourseProgress
\* swallows a failure of generateCertificate (line 421) and returns the
\* progress; a page gets the certificate or the error.
EndResultRethrown(s, ok) ==
  [op |-> loc[s].caller, ok |-> ok,
   progress |-> IF ok THEN loc[s].progress ELSE 0, flag |-> FALSE]

EndResult(s, ok) ==
  IF loc[s].caller = "calc" THEN CalcResult(s)
  ELSE [op |-> loc[s].caller, ok |-> ok, progress |-> 0, flag |-> FALSE]
EndCall(c, ok, err, cert) ==
  [c EXCEPT !.fin = TRUE, !.ok = ok, !.err = err, !.cert = cert]
InGenerate(s) == loc[s].caller \in {"calc", "gen"}
Cached(t, s, cert) ==
  IF InGenerate(s) THEN [t EXCEPT ![s].hasCert = TRUE, ![s].cert = cert] ELSE t

\* calculateCourseProgress, lines 291-390 and 418-432: the percentage, the
\* enrollment, and for a completed course the lookup of its certificate.
CalculateCourseProgress(s) ==
  /\ CanStart(s)
  /\ \E c \in {CalcCore(sess[s], lessons, lp, enrollment)} :
     \E g \in {GetCertificates(c.se, certs)} :
     LET c2 == result[s].op = "mark" /\ result[s].flag
         generate == c.done /\ g.certs = {}
     IN
     /\ steps' = steps + 1
     /\ sess' = [sess EXCEPT ![s] = IF c.done THEN g.se ELSE c.se]
     /\ enrollment' = c.enr
     /\ loc' = [DisturbLoc(loc, s) EXCEPT ![s] = [caller |-> "calc", progress |-> c.progress, c2 |-> c2,
                   seen |-> c.seen]]
     /\ pc' = [pc EXCEPT ![s] = IF generate THEN "gen" ELSE "idle"]
     /\ result' = [Disturb(result, s) EXCEPT ![s] =
                     IF generate THEN Running
                     ELSE [op |-> "calc", ok |-> TRUE, progress |-> c.progress,
                           flag |-> c2]]
     /\ call' = [Watch(call, s, c.enr, certs) EXCEPT ![s] =
                   IF generate
                     THEN [StartIssue("gen") EXCEPT !.inelig = ~Eligible(c.enr) /\ certs = {}]
                     ELSE @]
     /\ UNCHANGED <<pageVars, lessons, lp, certs, recent, thr, fetchVars,
                    clockVars>>

\* calculateCourseProgress, lines 293-296: without a user id (CoursePlayer
\* reads it from localStorage) or a course id nothing is asked of the store.
CalculateWithoutId(s) ==
  /\ CanStart(s)
  /\ steps' = steps + 1
  /\ loc' = [loc EXCEPT ![s] = [caller |-> "calc", progress |-> 0, c2 |-> FALSE,
                                 seen |-> Seen(FALSE, TRUE, 0)]]
  /\ result' = [result EXCEPT ![s] =
                  [op |-> "calc", ok |-> TRUE, progress |-> 0, flag |-> FALSE]]
  /\ UNCHANGED <<pageVars, storeVars, sess, thr, pc, call, fetchVars,
                 clockVars>>

\* certificateService.generateCertificate called by a page.
GenerateCertificate(s) ==
  /\ CanStart(s)
  /\ steps' = steps + 1
  /\ pc' = [pc EXCEPT ![s] = "gen"]
  /\ loc' = [loc EXCEPT ![s] = [caller |-> "gen", progress |-> 0, c2 |-> FALSE, seen |-> NoSeen]]
  /\ call' = [call EXCEPT ![s] = StartIssue("gen")]
  /\ result' = [result EXCEPT ![s] = Running]
  /\ UNCHANGED <<pageVars, storeVars, sess, thr, fetchVars, clockVars>>

\* certificateService.createCertificate called by a page, with complete data.
CreateCertificate(s) ==
  /\ CanStart(s)
  /\ steps' = steps + 1
  /\ pc' = [pc EXCEPT ![s] = "create"]
  /\ loc' = [loc EXCEPT ![s] = [caller |-> "create", progress |-> 0, c2 |-> FALSE, seen |-> NoSeen]]
  /\ call' = [call EXCEPT ![s] = StartIssue("create")]
  /\ result' = [result EXCEPT ![s] = Running]
  /\ UNCHANGED <<pageVars, storeVars, sess, thr, fetchVars, clockVars>>

\* generateCertificate, lines 201-296, up to the call of createCertificate:
\* the throttler's cached certificate; the certificate of the pair read from
\* the store; the eligibility, cached by the throttler or computed and then
\* cached.  The fabricated body is an object, which maybeSingle hands on as
\* the row: a certificate without an id (0 here).  The course and the
\* profile of the pair exist.
GenReads(s) ==
  LET r == WGet(sess[s], K("certSingle", {}), Ans(TRUE, certs))
      existing == r.fab \/ (r.ok /\ Cardinality(r.data) = 1)
      cert == IF thr[s].hasCert THEN thr[s].cert
              ELSE IF r.fab THEN 0 ELSE First(r.data)
      known == thr[s].elig # "undefined"
      e == IsEligibleForCertificate(r.se, certs, enrollment)
      isEligible == IF known THEN thr[s].elig = "true" ELSE e.eligible
  IN /\ pc[s] = "gen"
     /\ IF thr[s].hasCert \/ existing
          THEN /\ sess' = IF thr[s].hasCert THEN sess ELSE [sess EXCEPT ![s] = r.se]
               /\ thr' = Cached(thr, s, cert)
               /\ pc' = [pc EXCEPT ![s] = "idle"]
               /\ result' = [result EXCEPT ![s] = EndResult(s, TRUE)]
               /\ call' = [call EXCEPT ![s] = EndCall(@, TRUE, "none", cert)]
          ELSE /\ sess' = [sess EXCEPT ![s] = IF known THEN r.se ELSE e.se]
               /\ thr' = IF known THEN thr
                         ELSE [thr EXCEPT ![s].elig =
                                 IF e.eligible THEN "true" ELSE "false"]
               /\ IF isEligible
                    THEN /\ pc' = [pc EXCEPT ![s] = "create"]
                         /\ UNCHANGED <<result, call>>
                    ELSE /\ pc' = [pc EXCEPT ![s] = "idle"]
                         /\ result' = [result EXCEPT ![s] = EndResult(s, FALSE)]
                         /\ call' = [call EXCEPT ![s] =
                                       EndCall(@, FALSE, "notEligible", 0)]
     /\ UNCHANGED <<pageVars, storeVars, loc, steps, fetchVars, clockVars>>

\* createCertificate, lines 91-99: the existing certificate of the pair.
CreateCheck(s) ==
  LET g == GetCertificates(sess[s], certs) IN
  /\ pc[s] = "create"
  /\ sess' = [sess EXCEPT ![s] = g.se]
  /\ IF g.certs # {}
       THEN /\ pc' = [pc EXCEPT ![s] = "idle"]
            /\ result' = [result EXCEPT ![s] = EndResult(s, TRUE)]
            /\ call' = [call EXCEPT ![s] = EndCall(@, TRUE, "none", First(g.certs))]
            /\ thr' = Cached(thr, s, First(g.certs))
       ELSE /\ pc' = [pc EXCEPT ![s] = "insert"]
            /\ UNCHANGED <<result, call, thr>>
  /\ UNCHANGED <<pageVars, storeVars, loc, steps, fetchVars, clockVars>>

\* createCertificate, lines 103-173: the upsert into recent_certificates,
\* whose result is not looked at, and the insert.  A refused insert reaches
\* the client as an error whose message names the duplicate; code 23505
\* alone leads to the lookup of lines 138-142.  generateCertificate, lines
\* 303-321: after a duplicate the certificate of the pair is read again, and
\* without one the error is thrown on.
CreateInsert(s) ==
  LET u == WSend(sess[s], "recent_certificates", TRUE)
      w == WSend(u.se, "certificates", StoreAcceptsCertificate(certs))
      id == IF certs = {} THEN 1 ELSE First(certs) + 1
      lookup == ~w.ok /\ PostgrestErrorCode = "23505"
      g == GetCertificates(w.se, certs)
      se1 == IF lookup THEN g.se ELSE w.se
      found == lookup /\ g.certs # {}
      refetch == ~w.ok /\ ~found /\ InGenerate(s)
      r == WGet(se1, K("certSingle", {}), Ans(TRUE, certs))
      again == refetch /\ (r.fab \/ (r.ok /\ Cardinality(r.data) = 1))
      ok == w.ok \/ found \/ again
      cert == IF w.ok THEN id
              ELSE IF found THEN First(g.certs)
              ELSE IF again /\ ~r.fab THEN First(r.data) ELSE 0
      noted == [call[s] EXCEPT !.attempted = TRUE, !.inserted = w.ok,
                               !.dup = ~w.ok, !.recentWritten = TRUE,
                               !.allDone = w.ok /\ AllDone(lessons, lp)]
  IN /\ pc[s] = "insert"
     /\ sess' = [sess EXCEPT ![s] = IF refetch THEN r.se ELSE se1]
     /\ recent' = TRUE
     /\ certs' = IF w.ok THEN certs \cup {id} ELSE certs
     /\ pc' = [pc EXCEPT ![s] = "idle"]
     /\ result' = [result EXCEPT ![s] = EndResult(s, ok)]
     /\ call' = [Watch(call, s, enrollment, certs') EXCEPT ![s] =
                   IF ok THEN EndCall(noted, TRUE, "none", cert)
                   ELSE EndCall(noted, FALSE, "certificateError", 0)]
     /\ thr' = IF ok THEN Cached(thr, s, cert) ELSE thr
     /\ UNCHANGED <<pageVars, lessons, lp, enrollment, loc, steps, fetchVars,
                    clockVars>>

\* Time passes between the operations of the sessions.  The cooldown timers
\* that come due fire (part_004 lines 88, 115, 135), and requestThrottler may
\* drop what it cached.
Expired(se, t) ==
  [se EXCEPT !.errs = @ \ { x.path : x \in { y \in se.timers : y.due <= t } },
             !.timers = { y \in @ : y.due > t }]

CertTick(d, drop) ==
  /\ steps < MaxSteps
  /\ \A s \in Sessions : pc[s] = "idle"
  /\ steps' = steps + 1
  /\ now' = now + d
  /\ sess' = [s \in Sessions |-> Expired(sess[s], now')]
  /\ thr' = IF drop THEN [s \in Sessions |-> NewThrottle] ELSE thr
  /\ UNCHANGED <<pageVars, storeVars, pc, loc, call, result, ticks, fetchVars>>

CertInit ==
  FetchIdle /\ ClockInit /\ PageIdle /\ \E enrolled \in BOOLEAN : CertIdle(enrolled)

CertNext ==
  \/ \E s \in Sessions, l \in LessonIds : MarkLessonAsCompleted(s, l)
  \/ \E s \in Sessions, l \in LessonIds : MarkLessonAsIncomplete(s, l)
  \/ \E l \in LessonIds : CreateLesson(l)
  \/ \E s \in Sessions : CalculateCourseProgress(s)
  \/ \E s \in Sessions : GenerateCertificate(s)
  \/ \E s \in Sessions : CreateCertificate(s)
  \/ \E s \in Sessions : GenReads(s)
  \/ \E s \in Sessions : CreateCheck(s)
  \/ \E s \in Sessions : CreateInsert(s)
  \/ \E d \in TickSteps, drop \in BOOLEAN : CertTick(d, drop)

SpecCert == CertInit /\ [][CertNext]_vars

\* The course player alone: the sessions mark lessons and recalculate the
\* progress (CoursePlayer.tsx lines 58 and 102-111), an administrator adds
\* lessons; certificates are issued by the recalculation only.
MarkNext ==
  \/ \E s \in Sessions, l \in LessonIds : MarkLessonAsCompleted(s, l)
  \/ \E s \in Sessions, l \in LessonIds : MarkLessonAsIncomplete(s, l)
  \/ \E l \in LessonIds : CreateLesson(l)
  \/ \E s \in Sessions : CalculateCourseProgress(s)
  \/ \E s \in Sessions : CalculateWithoutId(s)
  \/ \E s \in Sessions : GenReads(s)
  \/ \E s \in Sessions : CreateCheck(s)
  \/ \E s \in Sessions : CreateInsert(s)
  \/ \E d \in TickSteps, drop \in BOOLEAN : CertTick(d, drop)

SpecMark == CertInit /\ [][MarkNext]_vars

(***************************************************************************)
(* enrollmentService.enrollCourse for one (user, course) pair, called from *)
(* two browser sessions.  The schema of enrollments is not part of the     *)
(* repository: the table is unique on the pair or it is not.               *)
(***************************************************************************)
EndEnroll(e, success, message, inserted) ==
  [e EXCEPT !.pc = "idle", !.fin = TRUE, !.success = success,
            !.message = message, !.inserted = inserted]

\* enrollCourse, lines 124-136: the check.  maybeSingle hands on one row, an
\* object body (the fabricated one) as the row, no row as null, and reports
\* more than one row as an error.
EnrollCourse(s) ==
  LET r == WGet(esess[s], EnrollKey, Ans(TRUE, rows))
      checkError == ~r.ok \/ (~r.fab /\ r.data > 1)
      existing == r.fab \/ r.data = 1
      e0 == [NoEnroll EXCEPT !.existed = rows > 0]
  IN /\ en[s].pc = "idle"
     /\ steps < MaxSteps
     /\ steps' = steps + 1
     /\ esess' = [esess EXCEPT ![s] = r.se]
     /\ en' = [en EXCEPT ![s] =
                 IF checkError THEN EndEnroll(e0, FALSE, "error", FALSE)
                 ELSE IF existing THEN EndEnroll(e0, FALSE, "already", FALSE)
                 ELSE [e0 EXCEPT !.pc = "insert"]]
     /\ UNCHANGED <<adminVars, userVars, authVars, moduleVars, rows, unique,
                    wins, now,
                    ticks, fetchVars, storeVars,
                    sess, thr, pc, loc, call, result>>

\* enrollCourse, lines 138-158: the insert.
EnrollInsert(s) ==
  LET w == WSend(esess[s], "enrollments", ~unique \/ rows = 0) IN
  /\ en[s].pc = "insert"
  /\ esess' = [esess EXCEPT ![s] = w.se]
  /\ rows' = IF w.ok THEN rows + 1 ELSE rows
  /\ wins' = IF w.ok THEN wins + 1 ELSE wins
  /\ en' = [en EXCEPT ![s] =
              IF w.ok THEN EndEnroll(@, TRUE, "enrolled", TRUE)
              ELSE EndEnroll(@, FALSE, "error", FALSE)]
  /\ UNCHANGED <<adminVars, userVars, authVars, moduleVars, unique, clockVars,
                 fetchVars,
                 certVars>>

\* Time passes between the calls; the cooldown timers that come due fire.
EnrollTick(d) ==
  /\ steps < MaxSteps
  /\ \A s \in Sessions : en[s].pc = "idle"
  /\ steps' = steps + 1
  /\ now' = now + d
  /\ esess' = [s \in Sessions |-> Expired(esess[s], now')]
  /\ UNCHANGED <<adminVars, userVars, authVars, moduleVars, rows, unique, en,
                 wins,
                 ticks, fetchVars, storeVars,
                 sess, thr, pc, loc, call, result>>

EnrollInit ==
  /\ FetchIdle /\ ClockInit /\ CertIdle(FALSE)
  /\ EnrollIdle /\ unique \in BOOLEAN /\ UserIdle /\ AuthIdle
  /\ ModulesIdle(NoModules) /\ AdminIdle

EnrollNext ==
  \/ \E s \in Sessions : EnrollCourse(s)
  \/ \E s \in Sessions : EnrollInsert(s)
  \/ \E d \in TickSteps : EnrollTick(d)

SpecEnroll == EnrollInit /\ [][EnrollNext]_vars

(***************************************************************************)
(* userService in one browser tab.  supabase.auth.getUser() is a GET of    *)
(* /auth/v1/user through the client's fetch wrapper; whose user it asks    *)
(* for is in the Authorization header, which is not part of the cache key. *)
(***************************************************************************)
NoUser == [present |-> FALSE, id |-> "undefined", role |-> "undefined"]
UserOf(u) == [present |-> TRUE, id |-> u, role |-> Role(u)]

\* getCurrentUser, lines 161-165.  Without a session getUser reports an
\* error without a request; the fabricated body is an object without id or
\* app_metadata.
GetCurrentUser(se, who, ok) ==
  LET r == WGet(se, UserKey, Ans(ok, who)) IN
  IF who = "none" THEN [se |-> se, threw |-> TRUE, user |-> NoUser]
  ELSE [se |-> r.se,
        threw |-> ~r.ok,
        user |-> IF ~r.ok THEN NoUser
                 ELSE IF r.fab THEN [NoUser EXCEPT !.present = TRUE]
                 ELSE UserOf(r.data)]

\* The guards of lines 210, 291, 316 and of line 254.
NotAdmin(currentUser) == ~currentUser.present \/ currentUser.role # "admin"
NotSelfNorAdmin(currentUser, userId) ==
  ~currentUser.present \/ (currentUser.id # userId /\ currentUser.role # "admin")

UserCall(op, target, performed, threw) ==
  [op |-> op, actor |-> signedIn, target |-> target, performed |-> performed,
   threw |-> threw]

\* login, lines 126-134: signInWithPassword, then getUser.
Login(u, ok) ==
  LET g == GetCurrentUser(usess, u, ok) IN
  /\ signedIn = "none"
  /\ steps < MaxSteps
  /\ signedIn' = u
  /\ usess' = g.se
  /\ steps' = steps + 1
  /\ UNCHANGED <<adminVars, authVars, moduleVars, profiles, ulast, now, ticks,
                 fetchVars,
                 storeVars, sess, thr,
                 pc, loc, call, result, enrollVars>>

\* logout, lines 182-190.
Logout ==
  /\ signedIn # "none"
  /\ signedIn' = "none"
  /\ UNCHANGED <<adminVars, authVars, moduleVars, usess, profiles, ulast,
                 clockVars,
                 fetchVars, certVars,
                 enrollVars>>

UserStep ==
  /\ steps < MaxSteps
  /\ steps' = steps + 1
  /\ UNCHANGED <<adminVars, authVars, moduleVars, signedIn, now, ticks,
                 fetchVars,
                 storeVars, sess, thr, pc, loc,
                 call, result, enrollVars>>

\* createUser, lines 206-247.
CreateUser(ok, accepted) ==
  LET g == GetCurrentUser(usess, signedIn, ok)
      refused == g.threw \/ NotAdmin(g.user)
      w == WSend(g.se, "auth/signup", accepted)
  IN /\ UserStep
     /\ usess' = IF refused THEN g.se ELSE w.se
     /\ ulast' = UserCall("createUser", "none", ~refused, refused \/ ~w.ok)
     /\ UNCHANGED profiles

\* updateUser, lines 250-284: update().eq('id', userId).select().single().
UpdateUser(userId, ok, accepted) ==
  LET g == GetCurrentUser(usess, signedIn, ok)
      refused == g.threw \/ NotSelfNorAdmin(g.user, userId)
      w == WSend(g.se, "profiles", accepted /\ userId \in profiles)
  IN /\ UserStep
     /\ usess' = IF refused THEN g.se ELSE w.se
     /\ ulast' = UserCall("updateUser", userId, ~refused, refused \/ ~w.ok)
     /\ UNCHANGED profiles

\* deleteUser, lines 287-309.
DeleteUser(userId, ok, accepted) ==
  LET g == GetCurrentUser(usess, signedIn, ok)
      refused == g.threw \/ NotAdmin(g.user)
      w == WSend(g.se, "profiles", accepted)
  IN /\ UserStep
     /\ usess' = IF refused THEN g.se ELSE w.se
     /\ ulast' = UserCall("deleteUser", userId, ~refused, refused \/ ~w.ok)
     /\ profiles' = IF ~refused /\ w.ok THEN profiles \ {userId} ELSE profiles

\* updateUserRoleByEmail, lines 312-344: the profile is looked up by email
\* (an array; the fabricated body is an object, neither null nor of length
\* 0), then updated.
UpdateUserRoleByEmail(email, ok, found, accepted) ==
  LET g == GetCurrentUser(usess, signedIn, ok)
      refused == g.threw \/ NotAdmin(g.user)
      f == WGet(g.se, ProfileKey(email),
                Ans(found, IF email \in profiles THEN email ELSE "none"))
      missing == ~f.ok \/ (~f.fab /\ f.data = "none")
      w == WSend(f.se, "profiles", accepted)
  IN /\ UserStep
     /\ usess' = IF refused THEN g.se ELSE IF missing THEN f.se ELSE w.se
     /\ ulast' = UserCall("updateUserRoleByEmail", email,
                          ~refused /\ ~missing, refused \/ missing \/ ~w.ok)
     /\ UNCHANGED profiles

\* Time passes between the calls; the cooldown timers that come due fire.
UserTick(d) ==
  /\ steps < MaxSteps
  /\ steps' = steps + 1
  /\ now' = now + d
  /\ usess' = Expired(usess, now')
  /\ UNCHANGED <<adminVars, authVars, moduleVars, signedIn, profiles, ulast,
                 ticks,
                 fetchVars, storeVars, sess,
                 thr, pc, loc, call, result, enrollVars>>

UserInit ==
  /\ FetchIdle /\ ClockInit /\ CertIdle(FALSE)
  /\ EnrollIdle /\ unique = TRUE /\ UserIdle /\ AuthIdle
  /\ ModulesIdle(NoModules) /\ AdminIdle

UserNext ==
  \/ \E u \in Users, ok \in BOOLEAN : Login(u, ok)
  \/ Logout
  \/ \E ok, accepted \in BOOLEAN : CreateUser(ok, accepted)
  \/ \E u \in Users, ok, accepted \in BOOLEAN : UpdateUser(u, ok, accepted)
  \/ \E u \in Users, ok, accepted \in BOOLEAN : DeleteUser(u, ok, accepted)
  \/ \E u \in Users, ok, found, accepted \in BOOLEAN :
       UpdateUserRoleByEmail(u, ok, found, accepted)
  \/ \E d \in TickSteps : UserTick(d)

SpecUser == UserInit /\ [][UserNext]_vars


(***************************************************************************)
(* AuthProvider for a user with a hard-coded admin email.  The callbacks   *)
(* the effect of lines 67-101 registers belong to the first render (the    *)
(* dependency list is empty): the ensureAdminRole they call reads the      *)
(* lastAdminRoleUpdate of that render.  login belongs to the last render.  *)
(***************************************************************************)
\* Date.now(): the clock of the model starts at 0, the epoch is long past.
DateNow == FIVE_MINUTES + now

FirstRender == 0

\* ensureAdminRole, lines 37-65, for a non-null user with an admin email:
\* whether it goes on to call supabase.auth.updateUser.
EnsureCalls(role, seen) ==
  /\ ~(DateNow - seen < FIVE_MINUTES)
  /\ role # "admin"

\* ensureAdminRole acting on the state: line 56 and the call of line 57.
EnsureAdminRole(role, seen) ==
  IF EnsureCalls(role, seen)
    THEN /\ lastAdminRoleUpdate' = DateNow
         /\ updating' = updating + 1
         /\ issued' = Append(issued, DateNow)
    ELSE UNCHANGED <<lastAdminRoleUpdate, updating, issued>>

AuthStep ==
  /\ steps < MaxSteps
  /\ steps' = steps + 1
  /\ UNCHANGED <<adminVars, moduleVars, now, ticks, fetchVars, storeVars,
                 sess, thr, pc,
                 loc, call,
                 result, enrollVars, userVars>>

\* Lines 87-98: the getSession result, with a session.
GetSessionResult ==
  /\ ~mounted
  /\ AuthStep
  /\ mounted' = TRUE
  /\ EnsureAdminRole(accountRole, FirstRender)
  /\ UNCHANGED <<accountRole, scheduled>>

\* Lines 69-84: an onAuthStateChange callback with a session; it schedules
\* ensureAdminRole for the adapted user of the event.
AuthStateChange ==
  /\ AuthStep
  /\ scheduled' = Append(scheduled, accountRole)
  /\ UNCHANGED <<lastAdminRoleUpdate, accountRole, updating, issued, mounted>>

\* Lines 77-79: the timeout of a callback runs.
EnsureTimeout ==
  /\ scheduled # <<>>
  /\ scheduled' = Tail(scheduled)
  /\ EnsureAdminRole(Head(scheduled), FirstRender)
  /\ UNCHANGED <<adminVars, moduleVars, accountRole, mounted, clockVars,
                 fetchVars,
                 certVars,
                 enrollVars, userVars>>

\* login, lines 126-144: a failed sign-in throws; a successful one raises
\* the SIGNED_IN event and goes on to getUser and ensureAdminRole.
AuthLogin(ok) ==
  /\ mounted
  /\ AuthStep
  /\ IF ok
       THEN /\ scheduled' = Append(scheduled, accountRole)
            /\ EnsureAdminRole(accountRole, lastAdminRoleUpdate)
       ELSE UNCHANGED <<scheduled, lastAdminRoleUpdate, updating, issued>>
  /\ UNCHANGED <<accountRole, mounted>>

\* The answer to an updateUser call: on success the user's metadata carries
\* the admin role.
UpdateUserReply(ok) ==
  /\ updating > 0
  /\ updating' = updating - 1
  /\ accountRole' = IF ok THEN "admin" ELSE accountRole
  /\ UNCHANGED <<adminVars, moduleVars, lastAdminRoleUpdate, issued,
                 scheduled, mounted,
                 clockVars,
                 fetchVars, certVars, enrollVars, userVars>>

AuthTickSteps == {ERROR_COOLDOWN, FIVE_MINUTES}

AuthTick(d) ==
  /\ steps < MaxSteps
  /\ steps' = steps + 1
  /\ now' = now + d
  /\ UNCHANGED <<adminVars, moduleVars, authVars, ticks, fetchVars, storeVars,
                 sess, thr,
                 pc, loc,
                 call, result, enrollVars, userVars>>

AuthInit ==
  /\ FetchIdle /\ ClockInit /\ CertIdle(FALSE)
  /\ EnrollIdle /\ unique = TRUE /\ UserIdle /\ AuthIdle
  /\ ModulesIdle(NoModules) /\ AdminIdle

AuthNext ==
  \/ GetSessionResult
  \/ AuthStateChange
  \/ EnsureTimeout
  \/ \E ok \in BOOLEAN : AuthLogin(ok)
  \/ \E ok \in BOOLEAN : UpdateUserReply(ok)
  \/ \E d \in AuthTickSteps : AuthTick(d)

SpecAuth == AuthInit /\ [][AuthNext]_vars

(***************************************************************************)
(* moduleService.getModulesByCourseId for one course.                      *)
(***************************************************************************)
\* The store's answer to .order('order_number', { ascending: true }): the
\* rows by ascending order_number (rows of equal order by id).
RECURSIVE OrderBy(_, _)
OrderBy(ids, rowsOf) ==
  IF ids = {} THEN <<>>
  ELSE LET m == CHOOSE x \in ids :
                  \A y \in ids :
                    \/ rowsOf[x].order < rowsOf[y].order
                    \/ (rowsOf[x].order = rowsOf[y].order /\ x <= y)
       IN <<[id |-> m, order |-> rowsOf[m].order]>>
            \o OrderBy(ids \ {m}, rowsOf)

\* Array.prototype.sort((a, b) => a.order - b.order), line 165: stable.
RECURSIVE InsertByOrder(_, _)
InsertByOrder(sorted, x) ==
  IF sorted = <<>> THEN <<x>>
  ELSE IF x.order < Head(sorted).order THEN <<x>> \o sorted
  ELSE <<Head(sorted)>> \o InsertByOrder(Tail(sorted), x)

RECURSIVE SortByOrder(_)
SortByOrder(list) ==
  IF list = <<>> THEN <<>>
  ELSE InsertByOrder(SortByOrder(SubSeq(list, 1, Len(list) - 1)),
                     list[Len(list)])

\* Lines 109-163: the loop over the modules.  A lesson query that reports
\* an error (119-131) and one whose body is not an array (the fabricated
\* object: .map is not a function, 151-162) both give the module without
\* lessons.
RECURSIVE LoadLessons(_, _, _, _)
LoadLessons(se, modules, okL, acc) ==
  IF modules = <<>> THEN [acc EXCEPT !.se = se]
  ELSE LET module == Head(modules)
           r == WGet(se, LessonsKey(module.id),
                     Ans(okL[module.id], mstore[module.id].lessons))
           got == IF r.ok /\ ~r.fab THEN r.data ELSE {}
       IN LoadLessons(r.se, Tail(modules), okL,
            [acc EXCEPT
               !.list = Append(@, [id |-> module.id, order |-> module.order,
                                   lessons |-> got]),
               !.failed = IF r.ok THEN @ ELSE @ \cup {module.id},
               !.read = IF r.via = "network" THEN @ \cup {module.id} ELSE @])

\* Lines 166-170: whether what is thrown inside the try leaves the call.
OuterCatchRethrows(thrown) == thrown
OuterCatch(thrown) == FALSE

\* getModulesByCourseId, lines 78-171.  The fabricated body of the module
\* query is an object: not null, its length is not 0, and for ... of throws
\* a TypeError on it.
GetModulesByCourseId(courseId, okM, okL) ==
  LET existing == { m \in ModuleIds : mstore[m].present }
      r == WGet(msess, ModulesKey, Ans(okM, OrderBy(existing, mstore)))
      notIterable == r.ok /\ r.fab
      none == r.ok /\ ~r.fab /\ r.data = <<>>
      loop == LoadLessons(r.se, r.data, okL,
                          [se |-> r.se, list |-> <<>>, failed |-> {},
                           read |-> {}])
      looped == r.ok /\ ~r.fab /\ ~none
  IN /\ steps < MaxSteps
     /\ steps' = steps + 1
     /\ IF courseId = ""
          THEN /\ mlast' = [NoModulesCall EXCEPT !.op = "get", !.threw = TRUE]
               /\ UNCHANGED msess
          ELSE /\ msess' = IF looped THEN loop.se ELSE r.se
               /\ mlast' =
                    [op |-> "get", courseId |-> courseId,
                     threw |-> OuterCatch(notIterable),
                     ret |-> IF looped THEN SortByOrder(loop.list) ELSE <<>>,
                     modulesFailed |-> ~r.ok,
                     modulesNone |-> none,
                     lessonsFailed |-> IF looped THEN loop.failed ELSE {},
                     lessonsRead |-> IF looped THEN loop.read ELSE {}]
     /\ UNCHANGED <<adminVars, mstore, now, ticks, fetchVars, storeVars, sess,
                    thr, pc, loc,
                    call, result, enrollVars, userVars, authVars>>

\* Time passes between the calls; the cooldown timers that come due fire.
ModulesTick(d) ==
  /\ steps < MaxSteps
  /\ steps' = steps + 1
  /\ now' = now + d
  /\ msess' = Expired(msess, now')
  /\ UNCHANGED <<adminVars, mstore, mlast, ticks, fetchVars, storeVars, sess,
                 thr, pc, loc,
                 call, result, enrollVars, userVars, authVars>>

CourseIds == {"", "course"}

ModulesInit ==
  /\ FetchIdle /\ ClockInit /\ CertIdle(FALSE)
  /\ EnrollIdle /\ unique = TRUE /\ UserIdle /\ AuthIdle /\ AdminIdle
  /\ \E rowsOfCourse \in ModuleRows : ModulesIdle(rowsOfCourse)

ModulesNext ==
  \/ \E c \in CourseIds, okM \in BOOLEAN, okL \in [ModuleIds -> BOOLEAN] :
       GetModulesByCourseId(c, okM, okL)
  \/ \E d \in TickSteps : ModulesTick(d)

SpecModules == ModulesInit /\ [][ModulesNext]_vars

(***************************************************************************)
(* AdminModules: the modules list of the page and handleSubmit in create   *)
(* mode (editingModuleId is null).  A list entry is a module id: one the   *)
(* store gave, or the temporary 'temp-<Date.now()>'.                       *)
(***************************************************************************)
MaxSubmits == 2

Temp(t) == [temp |-> TRUE, id |-> t]

\* Line 254: prevModules.filter(module => module.id !== tempId).
KeepTemp(list, t) == list

RECURSIVE RemoveTemp(_, _)
RemoveTemp(list, t) ==
  IF list = <<>> THEN <<>>
  ELSE IF Head(list) = Temp(t) THEN RemoveTemp(Tail(list), t)
  ELSE <<Head(list)>> \o RemoveTemp(Tail(list), t)

\* Lines 223-236: prevModules.map(module => module.id === tempId ? ... ).
ReplaceTemp(list, t, id) ==
  [i \in DOMAIN list |-> IF list[i] = Temp(t) THEN Stored(id) ELSE list[i]]

RECURSIVE RemoveModule(_, _)
RemoveModule(list, id) ==
  IF list = <<>> THEN <<>>
  ELSE IF Head(list) = Stored(id) THEN RemoveModule(Tail(list), id)
  ELSE <<Head(list)>> \o RemoveModule(Tail(list), id)

\* The rows of the store as getModulesByCourseId returns them.
RECURSIVE StoredList(_)
StoredList(ids) ==
  IF ids = {} THEN <<>>
  ELSE LET m == CHOOSE x \in ids : \A y \in ids : x <= y
       IN <<Stored(m)>> \o StoredList(ids \ {m})

\* Another handler changed the list while these submits await createModule;
\* a submit that starts while another is pending is disturbed from its start.
Disturbed(ps) == { [p EXCEPT !.disturbed = TRUE] : p \in ps }

AdminStep ==
  /\ steps < MaxSteps
  /\ steps' = steps + 1
  /\ UNCHANGED <<now, ticks, fetchVars, storeVars, sess, thr, pc, loc, call,
                 result, enrollVars, userVars, authVars, moduleVars>>

\* handleSubmit, lines 159-169: a form without a title or a course.
SubmitInvalid ==
  /\ AdminStep
  /\ alast' = [NoSubmit EXCEPT !.outcome = "invalid", !.before = amodules,
                               !.after = amodules]
  /\ UNCHANGED <<amodules, astore, submits>>

\* handleSubmit, lines 171-190 and 219: the temporary module is added and
\* createModule is called.
SubmitStart ==
  /\ AdminStep
  /\ Cardinality(submits) < MaxSubmits
  /\ amodules' = Append(amodules, Temp(now))
  /\ submits' = Disturbed(submits)
                  \cup {[tempId |-> now, before |-> amodules,
                         disturbed |-> submits # {}]}
  /\ UNCHANGED <<astore, alast>>

\* handleSubmit, lines 219-250: createModule returned the stored module.
SubmitSuccess(p) ==
  /\ p \in submits
  /\ amodules' = ReplaceTemp(amodules, p.tempId, astore.next)
  /\ astore' = [ids |-> astore.ids \cup {astore.next}, next |-> astore.next + 1]
  /\ submits' = Disturbed(submits \ {p})
  /\ alast' = [outcome |-> "success", tempId |-> p.tempId, before |-> p.before,
               after |-> amodules', stored |-> astore.next,
               disturbed |-> p.disturbed]
  /\ UNCHANGED <<clockVars, fetchVars, certVars, enrollVars, userVars, authVars,
                 moduleVars>>

\* handleSubmit, lines 251-259: createModule threw.
SubmitFailure(p) ==
  /\ p \in submits
  /\ amodules' = RemoveTemp(amodules, p.tempId)
  /\ submits' = Disturbed(submits \ {p})
  /\ alast' = [outcome |-> "failure", tempId |-> p.tempId, before |-> p.before,
               after |-> amodules', stored |-> 0, disturbed |-> p.disturbed]
  /\ UNCHANGED <<astore, clockVars, fetchVars, certVars, enrollVars, userVars,
                 authVars, moduleVars>>

\* fetchModulesByCourse, lines 100-110, from handleCourseSelect or from the
\* timeout of lines 145-151 and 244-250: the list becomes what
\* getModulesByCourseId returned, the rows of the course or [] on a failure.
FetchModulesByCourse(ok) ==
  /\ AdminStep
  /\ amodules' = IF ok THEN StoredList(astore.ids) ELSE <<>>
  /\ submits' = Disturbed(submits)
  /\ UNCHANGED <<astore, alast>>

\* handleDeleteModule, lines 135-157, of a stored module of the list.
HandleDeleteModule(id) ==
  /\ AdminStep
  /\ \E i \in DOMAIN amodules : amodules[i] = Stored(id)
  /\ astore' = [astore EXCEPT !.ids = @ \ {id}]
  /\ amodules' = RemoveModule(amodules, id)
  /\ submits' = Disturbed(submits)
  /\ UNCHANGED alast

\* Date.now() advances between two events of the page.
AdminTick ==
  /\ steps < MaxSteps
  /\ steps' = steps + 1
  /\ now' = now + 1
  /\ UNCHANGED <<adminVars, ticks, fetchVars, storeVars, sess, thr, pc, loc,
                 call, result, enrollVars, userVars, authVars, moduleVars>>

AdminInit ==
  /\ FetchIdle /\ ClockInit /\ CertIdle(FALSE)
  /\ EnrollIdle /\ unique = TRUE /\ UserIdle /\ AuthIdle
  /\ ModulesIdle(NoModules) /\ AdminIdle

AdminNext ==
  \/ SubmitInvalid
  \/ SubmitStart
  \/ \E p \in submits : SubmitSuccess(p)
  \/ \E p \in submits : SubmitFailure(p)
  \/ \E ok \in BOOLEAN : FetchModulesByCourse(ok)
  \/ \E id \in astore.ids : HandleDeleteModule(id)
  \/ AdminTick

SpecAdmin == AdminInit /\ [][AdminNext]_vars

(***************************************************************************)
(* Properties of the fetch wrapper.                                        *)
(***************************************************************************)

\* C7: a GET issued after a successful non-GET request to the same resource
\* is never answered with a response that was cached before that write.  The
\* data of a response is the number of writes the resource had seen when the
\* store produced it, so a cached answer older than the last write known at
\* the call carries a smaller number.
C7_NoStaleReadAfterWrite ==
  (resp.method = "GET" /\ FromCache(resp.via)) => resp.data >= resp.writesAtCall

\* C8 as stated: on every path through the wrapper, an entry older than
\* CACHE_TTL is never returned as the response.
C8_NeverOlderThanTtl ==
  FromCache(resp.via) => resp.age < CACHE_TTL

\* C8 as amended: on the normal GET path (lines 54-64) a cached response is
\* returned only while its entry is younger than CACHE_TTL; the cooldown,
\* timeout and error-fallback paths return the entry whatever its age.
C8_NormalPathWithinTtl ==
  resp.via = "cache" => resp.age < CACHE_TTL

\* An entry that has aged, and not yet expired, answers a normal GET.
C8_Witness ==
  resp.via = "cache" /\ resp.age > 0 /\ resp.age < CACHE_TTL

\* C9: whenever the network answers a request with HTTP 429 the wrapper
\* rejects; it never resolves such a request with a 200 response.
C9_RateLimitRejects ==
  resp.outcome = "s429" => resp.via = "throw"

\* C10: a GET called while its path is in errorPaths is never sent to the
\* network: it is answered from responseCache if the request has an entry and
\* with the fabricated empty response otherwise; only non-GET requests are
\* still sent.
C10_CooldownGetNotSent ==
  /\ \A r \in inflight : r.cooldownAtCall => r.method # "GET"
  /\ (resp.cooldownAtCall /\ resp.method = "GET") =>
       /\ resp.outcome = "none"
       /\ resp.via = IF resp.hadEntry THEN "cooldownCache" ELSE "cooldownEmpty"
  /\ (resp.cooldownAtCall /\ resp.method # "GET") => resp.outcome # "none"

\* A GET answered with the fabricated response during the cooldown, while a
\* non-GET request called during the same cooldown is on the network.
C10_Witness ==
  /\ resp.cooldownAtCall /\ resp.method = "GET" /\ resp.via = "cooldownEmpty"
  /\ \E r \in inflight : r.cooldownAtCall /\ r.method = "POST"

(***************************************************************************)
(* Properties of the certificate pipeline.                                 *)
(***************************************************************************)

C2_CertificateAfterLastLesson ==
  \A s \in Sessions : (result[s].op = "calc" /\ result[s].flag) => certs # {}

\* C3: an issuance call whose insert was refused as a duplicate ends by
\* returning the certificate of the pair, not with an error.
C3_LoserReturnsExisting ==
  \A s \in Sessions :
    (call[s].fin /\ call[s].dup) => (call[s].ok /\ call[s].cert \in certs)

\* C4: an issuance call made when the pair already has its certificate
\* returns that certificate and attempts no insert.
C4_IdempotentIssuance ==
  \A s \in Sessions :
    (call[s].fin /\ call[s].certAtStart)
      => (call[s].ok /\ call[s].cert \in certs /\ ~call[s].attempted)

\* C5: generateCertificate for a pair that has no certificate and whose
\* enrollment is missing or not at progress 100 with completed_at set, from
\* its call to its end, throws the not-eligible error and writes neither
\* certificates nor recent_certificates.
C5_NotEligibleThrows ==
  \A s \in Sessions :
    (call[s].fin /\ call[s].kind = "gen" /\ call[s].inelig)
      => (~call[s].ok /\ call[s].err = "notEligible"
          /\ ~call[s].inserted /\ ~call[s].recentWritten)

\* C6: generateCertificate inserts a certificate only when, at the moment of
\* the insert, every lesson of the course is completed by the user.
C6_InsertOnlyWhenAllCompleted ==
  \A s \in Sessions :
    (call[s].kind = "gen" /\ call[s].inserted) => call[s].allDone

\* C11: a markLessonAsCompleted call of an enrolled user that returns
\* leaves the lesson's record completed and enrollments.progress equal to
\* the rounded percentage of the course's lessons the user has completed.
C11_MarkUpdatesProgress ==
  [][\A s \in Sessions, l \in LessonIds :
       (MarkLessonAsCompleted(s, l) /\ enrollment.exists /\ result'[s].ok)
         => /\ lp'[l] = "done"
            /\ enrollment'.progress =
                 Percent(Cardinality(DoneIn(lessons, lp')), Cardinality(lessons))]_vars

\* C12: once markLessonAsCompleted has written the progress record, a
\* failure in the recalculation does not fail the call: it returns, and the
\* lesson is completed.
C12_RecalcFailureSwallowed ==
  [][\A s \in Sessions, l \in LessonIds :
       (MarkLessonAsCompleted(s, l) /\ MarkWrite(sess[s], l, lp).ok)
         => (result'[s].op = "mark" /\ result'[s].ok /\ lp'[l] = "done")]_vars

\* C12, its case: a markLessonAsCompleted call has returned whose
\* recalculation failed: the course is complete but the user has no
\* enrollment to read.
C12_Witness ==
  \E s \in Sessions :
    /\ result[s].op = "mark" /\ result[s].ok
    /\ ~enrollment.exists /\ AllDone(lessons, lp)
    /\ "enrollments" \in sess[s].errs

C14_SingleEnrollment ==
  /\ rows <= 1
  /\ wins <= 1
  /\ \A s \in Sessions :
       (en[s].fin /\ en[s].existed)
         => (~en[s].success /\ en[s].message = "already" /\ ~en[s].inserted)

\* C15: no userService mutation writes to the store unless the caller is
\* authorised.  createUser, deleteUser and updateUserRoleByEmail send no
\* sign-up, delete or update when the user signed in is absent or is not an
\* admin; updateUser sends no update unless the user signed in is the target
\* or an admin; every refused call throws.
C15_MutationsNeedAuthorisation ==
  LET authorised ==
        IF ulast.op = "updateUser"
          THEN ulast.actor # "none"
               /\ (ulast.actor = ulast.target \/ Role(ulast.actor) = "admin")
          ELSE ulast.actor # "none" /\ Role(ulast.actor) = "admin"
  IN ulast.op # "none" =>
       /\ ulast.performed => authorised
       /\ ~authorised => ulast.threw

\* C16: for a user with a hard-coded admin email whose role is not yet
\* 'admin', across any sequence of auth events ensureAdminRole calls
\* supabase.auth.updateUser at most once in any 5-minute window and never
\* has two such calls in flight together.
C16_OneRoleUpdatePerWindow ==
  /\ updating <= 1
  /\ \A i, j \in DOMAIN issued :
       i < j => issued[j] - issued[i] >= FIVE_MINUTES

\* C17: getModulesByCourseId with a non-empty courseId never throws; it
\* returns an empty array when the module query fails or finds nothing; a
\* module whose lesson query fails is returned with an empty lessons list
\* while the modules whose lesson query the store answered are returned with
\* their lessons; the returned modules are in ascending order; and the call
\* throws only when courseId is empty.
C17_ModulesNeverThrow ==
  mlast.op = "get" =>
    /\ mlast.threw <=> mlast.courseId = ""
    /\ (mlast.modulesFailed \/ mlast.modulesNone) => mlast.ret = <<>>
    /\ \A m \in mlast.lessonsFailed :
         \E i \in DOMAIN mlast.ret :
           mlast.ret[i].id = m /\ mlast.ret[i].lessons = {}
    /\ \A m \in mlast.lessonsRead :
         \E i \in DOMAIN mlast.ret :
           mlast.ret[i].id = m /\ mlast.ret[i].lessons = mstore[m].lessons
    /\ \A i, j \in DOMAIN mlast.ret :
         i < j => mlast.ret[i].order <= mlast.ret[j].order

\* C17 witness: a call for a course of two modules in which one module's
\* lesson query failed and the other's lessons came back.
C17_Witness ==
  /\ mlast.op = "get" /\ mlast.courseId # "" /\ ~mlast.threw
  /\ Len(mlast.ret) = 2
  /\ mlast.lessonsFailed # {}
  /\ \E i \in DOMAIN mlast.ret : mlast.ret[i].lessons # {}
  /\ mlast.ret[1].order < mlast.ret[2].order

\* C18: a user who was refused as not eligible at an earlier
\* generateCertificate attempt (the throttler holds that attempt's
\* eligibility result) is not refused once eligible: when the enrollment is
\* at progress 100 with completed_at set, the eligibility step of the next
\* generateCertificate call does not end the call with the not-eligible
\* error.
C18_EligibleNotRefused ==
  [][\A s \in Sessions :
       (/\ GenReads(s)
        /\ loc[s].caller = "gen"
        /\ thr[s].elig = "false"
        /\ Eligible(enrollment))
         => call'[s].err # "notEligible"]_vars

\* No module of the list has a temporary id.
NoTemp(list) == \A i \in DOMAIN list : ~list[i].temp

\* C19, as stated: a handleSubmit in create mode that has settled replaced
\* its temporary module by the stored module on success and removed it on
\* failure; once every submit has settled no temporary id remains in the
\* list; and on failure the list equals the list before the submit.
C19_OptimisticModule ==
  /\ submits = {} => NoTemp(amodules)
  /\ alast.outcome = "success" =>
       alast.after = Append(alast.before, Stored(alast.stored))
  /\ alast.outcome = "failure" => alast.after = alast.before

\* C19, amended: the same for a submit that ran alone, no other handler
\* (a second submit, a refresh, a delete) having changed the list between
\* its start and its end; no temporary id outlives the submits in any case.
C19_UndisturbedSubmit ==
  /\ submits = {} => NoTemp(amodules)
  /\ (alast.outcome = "success" /\ ~alast.disturbed) =>
       alast.after = Append(alast.before, Stored(alast.stored))
  /\ (alast.outcome = "failure" /\ ~alast.disturbed) =>
       alast.after = alast.before

\* C19 witness: a create that failed, undisturbed, after an earlier create
\* had succeeded.
C19_Witness ==
  /\ alast.outcome = "failure" /\ ~alast.disturbed
  /\ submits = {}
  /\ Len(alast.before) = 2
  /\ alast.after = alast.before

====
